---- MODULE Spec2Model ----
(***************************************************************************)
(* The Zomato delivery dashboard (src/dashboard.py) as a state machine.    *)
(*                                                                         *)
(* The script runs top to bottom once per render cycle: it loads the       *)
(* table, builds the sidebar filters, filters the table, computes the key  *)
(* metric cards, draws the four tabs and the raw-data section.  A change   *)
(* of a sidebar widget by the user re-runs the whole script.  An exception *)
(* that no handler catches ends the cycle where it is raised.              *)
(*                                                                         *)
(* A CSV source is modelled by the table pandas parses out of it (an empty *)
(* cell is the missing value) or by the fact that it cannot be parsed.     *)
(***************************************************************************)
EXTENDS Integers, Sequences, FiniteSets, TLC

VARIABLES
    uploaded_file,   \* st.file_uploader: "none", "csv" or "malformed"
    disk_file,       \* zomato_delivery_clean_tableau.csv: "missing", "csv", "malformed"
    content,         \* the table the uploaded CSV parses to
    df,              \* the loaded table, or None
    selected,        \* the four sidebar selectboxes (widget state)
    filtered_df,     \* the filtered view of this cycle
    metrics,         \* the key metric cards
    charts,          \* the charts drawn so far in this cycle
    insights,        \* the Key Business Insights emitted in this cycle
    shown,           \* the rows st.dataframe displays in the Raw Data section
    download,        \* the rows behind the download button
    messages,        \* st.error / st.info notices of this cycle
    error,           \* the exception that ended the cycle, or "none"
    pc               \* the section of the script that runs next

vars == <<uploaded_file, disk_file, content, df, selected, filtered_df, metrics,
          charts, insights, shown, download, messages, error, pc>>

-----------------------------------------------------------------------------
(* Bounds of the input families.                                           *)

MaxRows == 2        \* rows of an uploaded table, filter family
MaxMetricRows == 2  \* rows of an uploaded table, metric family
PageSlack == 3      \* rows beyond the display limit, raw-data family

-----------------------------------------------------------------------------
(* Column names.                                                           *)

City == "City"
Weather == "Weather_conditions"
Vehicle == "Type_of_vehicle"
Festival == "Festival"
TimeTaken == "Time_taken (min)"
Ratings == "Delivery_person_Ratings"
Performance == "delivery_performance"
Satisfaction == "customer_satisfaction"
PeakHour == "is_peak_hour"
Weekend == "is_weekend"

FilterCols == <<City, Weather, Vehicle, Festival>>

FilterColSet == {FilterCols[i] : i \in DOMAIN FilterCols}

NumericCols == {TimeTaken, Ratings, PeakHour, Weekend}

\* Columns the charts group or count by; only their presence matters here.
LabelCols == {"efficiency_tier", "distance_category", "Road_traffic_density",
              "meal_period", "order_hour", "day_type", "service_quality",
              "order_complexity", "difficulty_level"}

-----------------------------------------------------------------------------
(* Values.  pandas reads an empty cell as NaN.                             *)

NaNStr == "nan"

NaNNum == -1

isna(c, v) == IF c \in NumericCols THEN v = NaNNum ELSE v = NaNStr

\* A scalar result: a rational num/den, or NaN.
Num(n, d) == [kind |-> "num", num |-> n, den |-> d]

NaN == [kind |-> "nan", num |-> 0, den |-> 1]

None == [none |-> TRUE, columns |-> {}, rows |-> <<>>]

Table(cols, rows) == [none |-> FALSE, columns |-> cols, rows |-> rows]

NoMetrics == [computed |-> FALSE, total_deliveries |-> 0, avg_time |-> NaN,
              avg_rating |-> NaN, excellent_pct |-> NaN, satisfaction_pct |-> NaN]

-----------------------------------------------------------------------------
(* Series helpers.                                                         *)

\* df[c]: the values of column c, in row order.
Column(rows, c) == [i \in DOMAIN rows |-> rows[i][c]]

\* Series.unique(): the distinct values in order of first appearance, NaN included.
unique(s) ==
    LET firsts == {i \in DOMAIN s : \A j \in 1..(i - 1) : s[j] # s[i]}
        nth(k) == CHOOSE i \in firsts : Cardinality({j \in firsts : j < i}) = k - 1
    IN [k \in 1..Cardinality(firsts) |-> s[nth(k)]]

RECURSIVE SeqSum(_)
SeqSum(s) == IF s = <<>> THEN 0 ELSE s[1] + SeqSum(Tail(s))

\* (series == value): element-wise comparison; NaN equals nothing, itself included.
PdEq(c, v, w) == v = w /\ ~isna(c, v)

\* (series == value).sum(): the number of rows that compare equal.
CountEq(rows, c, w) == Len(SelectSeq(rows, LAMBDA r : PdEq(c, r[c], w)))

\* A mean that divides by the number of rows, the missing ones included.
MeanCountDropsNothing(s, present) == Len(s)

\* The denominator of Series.mean(): the values that are not NaN.
MeanCount(s, present) == Len(present)

\* Series.mean() of a numeric column: NaN values are skipped; NaN when none is left.
mean(rows, c) ==
    LET s == Column(rows, c)
        present == SelectSeq(s, LAMBDA v : v # NaNNum)
    IN IF present = <<>> THEN NaN
       ELSE Num(SeqSum(present), MeanCount(s, present))

\* (series == value).mean() * 100: a boolean series has no NaN; NaN when empty.
MeanEqTimes100(rows, c, w) ==
    IF rows = <<>> THEN NaN ELSE Num(CountEq(rows, c, w) * 100, Len(rows))

\* series.mean() * 100
MeanTimes100(rows, c) ==
    LET m == mean(rows, c)
    IN IF m.kind = "nan" THEN NaN ELSE Num(m.num * 100, m.den)

\* groupby(g)[m].mean(): one entry per distinct non-missing key of g.
GroupMean(rows, g, m) ==
    LET keys == {rows[i][g] : i \in DOMAIN rows} \ {IF g \in NumericCols THEN NaNNum ELSE NaNStr}
    IN [k \in keys |-> mean(SelectSeq(rows, LAMBDA r : r[g] = k), m)]

-----------------------------------------------------------------------------
(* Sidebar filters.                                                        *)

\* ['All'] + list(df[c].unique()) if c in df.columns else ['All']
FilterOptions(d, c) ==
    IF c \in d.columns THEN <<"All">> \o unique(Column(d.rows, c)) ELSE <<"All">>

OptionSet(d, c) == {FilterOptions(d, c)[i] : i \in DOMAIN FilterOptions(d, c)}

\* A filter step that loses the first matching row (a slice off by one).
FilterStepDropsFirst(rows, cols, c, sel) ==
    IF sel # "All" /\ c \in cols
    THEN LET kept == SelectSeq(rows, LAMBDA r : PdEq(c, r[c], sel))
         IN IF kept = <<>> THEN kept ELSE Tail(kept)
    ELSE rows

\* if selected != 'All' and c in df.columns: filtered_df = filtered_df[filtered_df[c] == selected]
FilterStep(rows, cols, c, sel) ==
    IF sel # "All" /\ c \in cols
    THEN SelectSeq(rows, LAMBDA r : PdEq(c, r[c], sel))
    ELSE rows

\* filtered_df = df.copy(), then the four filters in the script's order.
ApplyFilters(d, sel) ==
    LET f1 == FilterStep(d.rows, d.columns, City, sel[City])
        f2 == FilterStep(f1, d.columns, Weather, sel[Weather])
        f3 == FilterStep(f2, d.columns, Vehicle, sel[Vehicle])
        f4 == FilterStep(f3, d.columns, Festival, sel[Festival])
    IN Table(d.columns, f4)

\* Filters that work on df itself: df is left holding the filtered rows.
FilteringInPlace(d, rows) == Table(d.columns, rows)

\* df after the filters ran: they work on df.copy(), so df keeps its rows.
AfterCopy(d, rows) == d

-----------------------------------------------------------------------------
(* The charts of the four tabs: the columns each one's guard asks for.     *)

Chart(name, tab, needs) == [name |-> name, tab |-> tab, needs |-> needs]

Tab1Charts ==
    { Chart("delivery_performance_pie", 1, {Performance}),
      Chart("rating_histogram", 1, {Ratings}),
      Chart("time_histogram", 1, {TimeTaken}),
      Chart("efficiency_counts", 1, {"efficiency_tier"}) }

Tab2Charts ==
    { Chart("city_performance", 2, {City, TimeTaken}),
      Chart("distance_performance", 2, {"distance_category", TimeTaken}),
      Chart("weather_impact", 2, {Weather, TimeTaken}),
      Chart("traffic_impact", 2, {"Road_traffic_density", TimeTaken}) }

Tab3Charts ==
    { Chart("meal_performance", 3, {"meal_period", TimeTaken}),
      Chart("hourly_performance", 3, {"order_hour", TimeTaken}),
      Chart("weekend_performance", 3, {Weekend, TimeTaken}),
      Chart("day_performance", 3, {"day_type", TimeTaken}) }

Tab4Charts ==
    { Chart("satisfaction_counts", 4, {Satisfaction}),
      Chart("service_counts", 4, {"service_quality"}),
      Chart("complexity_counts", 4, {"order_complexity"}),
      Chart("difficulty_impact", 4, {"difficulty_level", TimeTaken}) }

AllCharts == Tab1Charts \cup Tab2Charts \cup Tab3Charts \cup Tab4Charts

\* The charts of a tab whose guard ('<col>' in filtered_df.columns ...) passes.
Drawn(tabCharts, cols) == {c.name : c \in {x \in tabCharts : x.needs \subseteq cols}}

\* The charts tab3 draws before and after the weekend chart.
Tab3BeforeWeekend == {c \in Tab3Charts : c.name \in {"meal_performance", "hourly_performance"}}

\* weekend_performance.index = ['Weekday', 'Weekend'] needs exactly two groups.
WeekendLabels == <<"Weekday", "Weekend">>

RelabelFits(groups) == Cardinality(DOMAIN groups) = Len(WeekendLabels)

Insight(name, value) == [name |-> name, value |-> value]

\* The Key Business Insights block: one insight per present column.
BusinessInsights(rows, cols) ==
    (IF Performance \in cols
        THEN {Insight("excellent_pct", MeanEqTimes100(rows, Performance, "Excellent"))} ELSE {})
    \cup (IF Satisfaction \in cols
        THEN {Insight("high_sat_pct", MeanEqTimes100(rows, Satisfaction, "High"))} ELSE {})
    \cup (IF PeakHour \in cols
        THEN {Insight("peak_orders_pct", MeanTimes100(rows, PeakHour))} ELSE {})
    \cup (IF TimeTaken \in cols
        THEN {Insight("avg_time", mean(rows, TimeTaken))} ELSE {})
    \cup (IF Ratings \in cols
        THEN {Insight("avg_rating", mean(rows, Ratings))} ELSE {})
    \cup (IF Festival \in cols
        THEN {Insight("festival_pct", MeanEqTimes100(rows, Festival, "Yes"))} ELSE {})

\* The value a key metric card shows for a column that is absent.
AbsentDefault == Num(0, 1)

\* (count / total_deliveries * 100) if total_deliveries > 0 else 0
CardPct(count, total) == IF total > 0 THEN Num(count * 100, total) ELSE Num(0, 1)

\* The five key metric cards.
KeyMetricCards(rows, cols) ==
    LET total_deliveries == Len(rows)
        excellent_deliveries ==
            IF Performance \in cols THEN CountEq(rows, Performance, "Excellent") ELSE 0
        high_satisfaction ==
            IF Satisfaction \in cols THEN CountEq(rows, Satisfaction, "High") ELSE 0
    IN [computed |-> TRUE,
        total_deliveries |-> total_deliveries,
        avg_time |-> IF TimeTaken \in cols THEN mean(rows, TimeTaken) ELSE AbsentDefault,
        avg_rating |-> IF Ratings \in cols THEN mean(rows, Ratings) ELSE AbsentDefault,
        excellent_pct |-> CardPct(excellent_deliveries, total_deliveries),
        satisfaction_pct |-> CardPct(high_satisfaction, total_deliveries)]

\* The display limit of the Raw Data section.
HeadLimit == 1000

\* DataFrame.head(n)
head(rows, n) == SubSeq(rows, 1, IF Len(rows) < n THEN Len(rows) ELSE n)

-----------------------------------------------------------------------------
(* The inputs: the fallback dataset on disk and the uploads.               *)

LabelPart == [c \in LabelCols |-> "x"]

DiskRow(city, weather, vehicle, festival, time, rating, perf, sat, peak, weekend) ==
    (City :> city) @@ (Weather :> weather) @@ (Vehicle :> vehicle)
    @@ (Festival :> festival) @@ (TimeTaken :> time) @@ (Ratings :> rating)
    @@ (Performance :> perf) @@ (Satisfaction :> sat) @@ (PeakHour :> peak)
    @@ (Weekend :> weekend) @@ LabelPart

\* A dataset in the expected format (the column list the script prints).
DiskTable ==
    Table(FilterColSet \cup NumericCols \cup {Performance, Satisfaction} \cup LabelCols,
          << DiskRow("A", "Sunny", "bike", "No", 20, 5, "Excellent", "High", 1, 0),
             DiskRow("B", "Fog", "scooter", "Yes", 40, 4, "Good", "Low", 0, 1),
             DiskRow("A", "Fog", "bike", "No", 30, NaNNum, "Excellent", "Low", 1, 1) >>)

\* The values the uploads draw a column's cells from.
Dom(c) ==
    CASE c = City -> {"A", "B", NaNStr}
      [] c = Weather -> {"Sunny", "Fog"}
      [] c = Vehicle -> {"bike"}
      [] c = Festival -> {"Yes"}
      [] c = TimeTaken -> {20, 30, NaNNum}
      [] c = Ratings -> {4, 5, NaNNum}
      [] c = Performance -> {"Excellent", "Good"}
      [] c = Satisfaction -> {"High", "Low"}
      [] c = PeakHour -> {0, 1}
      [] c = Weekend -> {0, 1}
      [] OTHER -> {"x"}

RECURSIVE RowsOver(_)
\* Every row over the columns cols.
RowsOver(cols) ==
    IF cols = {} THEN {<<>>}
    ELSE LET c == CHOOSE x \in cols : TRUE
         IN {(c :> v) @@ r : v \in Dom(c), r \in RowsOver(cols \ {c})}

\* Every table over the columns cols with at most n rows.
TablesOver(cols, n) ==
    {Table(cols, rows) : rows \in UNION {[1..k -> RowsOver(cols)] : k \in 0..n}}

\* Filter family: any non-empty set of the filter columns.
Uploads == UNION {TablesOver(cols, MaxRows) : cols \in (SUBSET FilterColSet) \ {{}}}

MetricSchemas ==
    { {City, TimeTaken}, {City, Ratings}, {TimeTaken, Ratings},
      {City, Performance, Satisfaction}, {City, Festival, PeakHour},
      {City, TimeTaken, Weekend}, {City, Weather, TimeTaken},
      {City, Weather, Performance} }

\* Metric family: a few schemas around the measured columns.
MetricUploads == UNION {TablesOver(cols, MaxMetricRows) : cols \in MetricSchemas}

\* Raw-data family: tables around the display limit, cities alternating.
PageUploads ==
    {Table({City}, [i \in 1..n |-> (City :> (IF i % 2 = 0 THEN "B" ELSE "A"))]) :
        n \in (HeadLimit - PageSlack)..(HeadLimit + PageSlack)}

NoShown == [checked |-> FALSE, rows |-> <<>>]

NoDownload == [ready |-> FALSE, rows |-> <<>>, file_name |-> <<"All", "All">>]

Fresh ==
    /\ df = None
    /\ filtered_df = None
    /\ metrics = NoMetrics
    /\ charts = {}
    /\ insights = {}
    /\ shown = NoShown
    /\ download = NoDownload
    /\ messages = {}
    /\ error = "none"
    /\ pc = "load"

InitWith(uploads) ==
    /\ \/ uploaded_file = "csv" /\ disk_file = "missing" /\ content \in uploads
       \/ /\ uploaded_file \in {"none", "malformed"}
          /\ disk_file \in {"missing", "csv", "malformed"}
          /\ content = None
    /\ selected = [c \in FilterColSet |-> "All"]
    /\ Fresh

Init == InitWith(Uploads)

InitMetrics == InitWith(MetricUploads)

InitPage == InitWith(PageUploads)

-----------------------------------------------------------------------------
(* The script, section by section.                                         *)

\* pd.read_csv: the table, or an exception when the bytes are no CSV.
read_csv(file, table) == IF file = "csv" THEN table ELSE None

\* Lines 39-58: the uploaded file if there is one, else load_data().  Only
\* FileNotFoundError has a handler; any other exception ends the script.
Load ==
    /\ pc = "load"
    /\ IF uploaded_file # "none"
       THEN IF uploaded_file = "csv"
            THEN /\ df' = read_csv(uploaded_file, content)
                 /\ pc' = "sidebar"
                 /\ UNCHANGED <<error, messages>>
            ELSE /\ error' = "ParserError"
                 /\ pc' = "failed"
                 /\ UNCHANGED <<df, messages>>
       ELSE IF disk_file = "missing"
            THEN /\ messages' = {"Dataset not found. Please upload the CSV file."}
                 /\ df' = None
                 /\ pc' = "prompt"
                 /\ UNCHANGED error
            ELSE IF disk_file = "csv"
                 THEN /\ df' = read_csv(disk_file, DiskTable)
                      /\ pc' = "sidebar"
                      /\ UNCHANGED <<error, messages>>
                 ELSE /\ error' = "ParserError"
                      /\ pc' = "failed"
                      /\ UNCHANGED <<df, messages>>
    /\ UNCHANGED <<uploaded_file, disk_file, content, selected, filtered_df,
                   metrics, charts, insights, shown, download>>

\* Lines 373-392: no table, the upload prompt.
Prompt ==
    /\ pc = "prompt"
    /\ messages' = messages \cup {"Please upload your Zomato delivery dataset to get started!"}
    /\ pc' = "done"
    /\ UNCHANGED <<uploaded_file, disk_file, content, df, selected, filtered_df,
                   metrics, charts, insights, shown, download, error>>

\* Lines 59-87: the four selectboxes return the widget state; apply the filters.
Sidebar ==
    /\ pc = "sidebar"
    /\ filtered_df' = ApplyFilters(df, selected)
    /\ df' = AfterCopy(df, filtered_df'.rows)
    /\ pc' = "metrics"
    /\ UNCHANGED <<uploaded_file, disk_file, content, selected, metrics, charts,
                   insights, shown, download, messages, error>>

\* Lines 89-113.
KeyMetrics ==
    /\ pc = "metrics"
    /\ metrics' = KeyMetricCards(filtered_df.rows, filtered_df.columns)
    /\ pc' = "tab1"
    /\ UNCHANGED <<uploaded_file, disk_file, content, df, selected, filtered_df,
                   charts, insights, shown, download, messages, error>>

\* Lines 120-164.
Tab1 ==
    /\ pc = "tab1"
    /\ charts' = charts \cup Drawn(Tab1Charts, filtered_df.columns)
    /\ pc' = "tab2"
    /\ UNCHANGED <<uploaded_file, disk_file, content, df, selected, filtered_df,
                   metrics, insights, shown, download, messages, error>>

\* Lines 166-215.
Tab2 ==
    /\ pc = "tab2"
    /\ charts' = charts \cup Drawn(Tab2Charts, filtered_df.columns)
    /\ pc' = "tab3"
    /\ UNCHANGED <<uploaded_file, disk_file, content, df, selected, filtered_df,
                   metrics, insights, shown, download, messages, error>>

\* Lines 217-267.  Assigning the two labels to the weekend groups raises
\* ValueError (length mismatch) unless there are exactly two groups.
Tab3 ==
    /\ pc = "tab3"
    /\ LET cols == filtered_df.columns
           weekend_performance == GroupMean(filtered_df.rows, Weekend, TimeTaken)
       IN IF {Weekend, TimeTaken} \subseteq cols /\ ~RelabelFits(weekend_performance)
          THEN /\ charts' = charts \cup Drawn(Tab3BeforeWeekend, cols)
               /\ error' = "ValueError"
               /\ pc' = "failed"
          ELSE /\ charts' = charts \cup Drawn(Tab3Charts, cols)
               /\ pc' = "tab4"
               /\ UNCHANGED error
    /\ UNCHANGED <<uploaded_file, disk_file, content, df, selected, filtered_df,
                   metrics, insights, shown, download, messages>>

\* Lines 269-353.
Tab4 ==
    /\ pc = "tab4"
    /\ charts' = charts \cup Drawn(Tab4Charts, filtered_df.columns)
    /\ insights' = BusinessInsights(filtered_df.rows, filtered_df.columns)
    /\ pc' = "rawdata"
    /\ UNCHANGED <<uploaded_file, disk_file, content, df, selected, filtered_df,
                   metrics, shown, download, messages, error>>

\* Lines 355-371: the raw-data checkbox and the download button.
RawData ==
    /\ pc = "rawdata"
    /\ \E checked \in BOOLEAN :
          /\ shown' = [checked |-> checked,
                       rows |-> IF checked THEN head(filtered_df.rows, HeadLimit) ELSE <<>>]
          /\ messages' = IF checked THEN messages \cup {"Showing first 1000 rows"}
                         ELSE messages
    /\ download' = [ready |-> TRUE, rows |-> filtered_df.rows,
                    file_name |-> <<selected[City], selected[Weather]>>]
    /\ pc' = "done"
    /\ UNCHANGED <<uploaded_file, disk_file, content, df, selected, filtered_df,
                   metrics, charts, insights, error>>

\* The user picks another option in a selectbox: the script runs again from
\* the top, with nothing kept of the last run but the widget state.
ChangeFilter ==
    /\ pc \in {"done", "failed"}
    /\ ~df.none
    /\ \E c \in FilterColSet :
          \E v \in OptionSet(df, c) \ {selected[c]} :
             selected' = [selected EXCEPT ![c] = v]
    /\ df' = None
    /\ filtered_df' = None
    /\ metrics' = NoMetrics
    /\ charts' = {}
    /\ insights' = {}
    /\ shown' = NoShown
    /\ download' = NoDownload
    /\ messages' = {}
    /\ error' = "none"
    /\ pc' = "load"
    /\ UNCHANGED <<uploaded_file, disk_file, content>>

Next ==
    \/ Load
    \/ Prompt
    \/ Sidebar
    \/ KeyMetrics
    \/ Tab1
    \/ Tab2
    \/ Tab3
    \/ Tab4
    \/ RawData
    \/ ChangeFilter

Spec == Init /\ [][Next]_vars

SpecMetrics == InitMetrics /\ [][Next]_vars

SpecPage == InitPage /\ [][Next]_vars

-----------------------------------------------------------------------------
(* Properties.                                                             *)

\* The table this session's load reads.
SourceTable == IF uploaded_file = "csv" THEN content ELSE DiskTable

Filtered == ~filtered_df.none

\* The filter columns the selection constrains.
Constrained(cols, sel) == {c \in FilterColSet \cap cols : sel[c] # "All"}

\* A row whose value is the selected one in every constrained column.
Matches(r, cols, sel) == \A c \in Constrained(cols, sel) : r[c] = sel[c]

\* The same, a missing value being equal to nothing.
MatchesPresent(r, cols, sel) ==
    \A c \in Constrained(cols, sel) : r[c] = sel[c] /\ r[c] # NaNStr

\* C1: the filtered view is exactly the subsequence of the table's rows whose
\* value equals the selected value in every filter column whose selection is
\* not "All": order kept, no matching row dropped, no other row kept.
C1_FilterExact ==
    Filtered =>
        filtered_df.rows =
            SelectSeq(df.rows, LAMBDA r : Matches(r, df.columns, selected))

\* Where C1 does hold: no selected value is the missing value.
FilterExactForPresentValues ==
    (Filtered /\ \A c \in FilterColSet : selected[c] # NaNStr) =>
        filtered_df.rows =
            SelectSeq(df.rows, LAMBDA r : Matches(r, df.columns, selected))

\* C2: the filtered table has at most as many rows as the original table,
\* and filtering the filtered table again with the same selection gives the
\* same rows.
C2_ShrinksAndIdempotent ==
    Filtered =>
        /\ Len(filtered_df.rows) <= Len(df.rows)
        /\ ApplyFilters(filtered_df, selected) = filtered_df

\* C2 witness: a selection that keeps some rows and drops others.
C2_Witness ==
    /\ Filtered
    /\ Constrained(df.columns, selected) # {}
    /\ filtered_df.rows # <<>>
    /\ Len(filtered_df.rows) < Len(df.rows)

IsPct(v) == v.kind = "num" /\ 0 <= v.num /\ v.num <= 100 * v.den

IsZero(v) == v.kind = "num" /\ v.num = 0

PctInsights == {"excellent_pct", "high_sat_pct", "peak_orders_pct", "festival_pct"}

\* C3: every percentage computed over the filtered view, on the key metric
\* cards and in the insight summary, lies in [0, 100] and is 0 when the
\* filtered view has no rows.
C3_PercentagesDefined ==
    /\ metrics.computed =>
          /\ IsPct(metrics.excellent_pct) /\ IsPct(metrics.satisfaction_pct)
          /\ filtered_df.rows = <<>> =>
                IsZero(metrics.excellent_pct) /\ IsZero(metrics.satisfaction_pct)
    /\ \A i \in insights :
          i.name \in PctInsights =>
             /\ IsPct(i.value)
             /\ filtered_df.rows = <<>> => IsZero(i.value)

\* C4: a selection that matches no row is no error: the render cycle runs
\* every aggregate to completion without raising.
C4_EmptyViewCompletes ==
    (Filtered /\ filtered_df.rows = <<>>) => error = "none" /\ pc # "failed"

CycleOver == pc \in {"done", "failed"} /\ ~df.none

\* C5: whatever columns are absent, the cycle ends without a missing-column
\* failure, the charts of an absent column are skipped, the filter of an
\* absent column offers only "All" and constrains nothing, and every chart
\* whose columns are present is drawn.
C5_AbsentColumnsTolerated ==
    CycleOver =>
        /\ error # "KeyError"
        /\ \A c \in AllCharts : c.name \in charts <=> c.needs \subseteq df.columns
        /\ \A c \in FilterColSet \ df.columns :
              /\ FilterOptions(df, c) = <<"All">>
              /\ ApplyFilters(df, [selected EXCEPT ![c] = "A"]) = filtered_df

RECURSIVE SetSum(_, _)
SetSum(f, S) ==
    IF S = {} THEN 0
    ELSE LET i == CHOOSE x \in S : TRUE IN f[i] + SetSum(f, S \ {i})

\* v is the arithmetic mean of the non-missing values of column c.
IsMeanOf(v, rows, c) ==
    LET present == {i \in DOMAIN rows : rows[i][c] # NaNNum}
    IN IF present = {} THEN v.kind = "nan"
       ELSE /\ v.kind = "num"
            /\ v.num * Cardinality(present) = SetSum(Column(rows, c), present) * v.den

\* C6: the mean card of a measure column is the arithmetic mean of its
\* non-missing values over the filtered view, and undefined when the column
\* is absent or every value is missing (an empty view included).
C6_MeanOrUndefined ==
    metrics.computed =>
        /\ IF TimeTaken \in filtered_df.columns
           THEN IsMeanOf(metrics.avg_time, filtered_df.rows, TimeTaken)
           ELSE metrics.avg_time.kind = "nan"
        /\ IF Ratings \in filtered_df.columns
           THEN IsMeanOf(metrics.avg_rating, filtered_df.rows, Ratings)
           ELSE metrics.avg_rating.kind = "nan"

\* C6 as amended: as C6, but the card of an absent column shows 0.
C6_MeanOrZeroWhenAbsent ==
    metrics.computed =>
        /\ IF TimeTaken \in filtered_df.columns
           THEN IsMeanOf(metrics.avg_time, filtered_df.rows, TimeTaken)
           ELSE IsZero(metrics.avg_time)
        /\ IF Ratings \in filtered_df.columns
           THEN IsMeanOf(metrics.avg_rating, filtered_df.rows, Ratings)
           ELSE IsZero(metrics.avg_rating)

\* C6 witness: on the dataset from disk the City filter keeps two of the
\* three rows; their times 20 and 30 average 25, and the rating 5 is the
\* mean of the ratings with the missing one skipped.
C6_Witness ==
    /\ metrics.computed
    /\ selected[City] = "A"
    /\ Len(filtered_df.rows) = 2
    /\ Len(df.rows) = 3
    /\ \E i \in DOMAIN filtered_df.rows : filtered_df.rows[i][Ratings] = NaNNum
    /\ metrics.avg_time.kind = "num"
    /\ metrics.avg_time.num = 25 * metrics.avg_time.den
    /\ metrics.avg_rating.kind = "num"
    /\ metrics.avg_rating.num = 5 * metrics.avg_rating.den

\* C7: an upload that cannot be parsed ends in a parse-error notice to the
\* user and no table; the failure does not escape as an unhandled exception.
C7_ParseErrorSurfaced ==
    (uploaded_file = "malformed" /\ pc # "load") =>
        /\ error = "none"
        /\ df.none
        /\ \E m \in messages : TRUE

\* C8: over any sequence of render cycles on one loaded table, the table is
\* never modified and the filtered view is what filtering the original
\* table with the current selection gives.
C8_TableImmutable ==
    /\ ~df.none => df = SourceTable
    /\ Filtered =>
          /\ filtered_df.columns = SourceTable.columns
          /\ filtered_df.rows =
                SelectSeq(SourceTable.rows,
                          LAMBDA r : MatchesPresent(r, SourceTable.columns, selected))

\* C8 witness: a later cycle (two selections were changed since the first)
\* whose view keeps some rows of the table and drops others.
C8_Witness ==
    /\ Filtered
    /\ Cardinality(Constrained(df.columns, selected)) >= 2
    /\ filtered_df.rows # <<>>
    /\ Len(filtered_df.rows) < Len(df.rows)
    /\ pc = "done"

\* C9: the raw-data view shows every filtered row: each page has at most
\* the page size of rows and the pages' lengths sum to the row count.
C9_EveryRowShown ==
    shown.checked =>
        /\ Len(shown.rows) <= HeadLimit
        /\ Len(shown.rows) = Len(filtered_df.rows)

\* C10: when the filtered view is empty, no average-delivery-time insight
\* and no average-rating insight is emitted.
C10_NoInsightOnEmptyView ==
    (Filtered /\ filtered_df.rows = <<>>) =>
        \A i \in insights : i.name \notin {"avg_time", "avg_rating"}

====
